---- MODULE Spec2Model ----
(***************************************************************************)
(* A model of app.py, the COVID-19 dashboard: the data preparation         *)
(* pipeline load_and_prepare_data, the module-level table df, the page     *)
(* layout built at import time, the Dash callbacks that read df, and the   *)
(* number formatter format_number.                                         *)
(*                                                                         *)
(* Numbers.  Counters read from the CSV are integers.  A value rounded to  *)
(* two decimals is kept in hundredths (13.33 is 1333).  A float that may   *)
(* be NaN or infinite is a record [k, c]: k is "nan", "inf" or "num" and c *)
(* the value in hundredths.  A mean is the pair [num, den] of the window's *)
(* sum and its number of samples.  Arithmetic is exact: the binary         *)
(* rounding error of IEEE doubles is not modelled.                         *)
(***************************************************************************)
EXTENDS Integers, Sequences, FiniteSets, TLC

VARIABLES
    csv,        \* the file Covid_Analysis_Data.csv as found on disk
    df,         \* the module-level table: [columns, rows]
    pc,         \* "start", "loaded", "serving" or "crashed"
    log,        \* the lines load_and_prepare_data has printed, as a set
    layout,     \* the controls of app.layout
    call,       \* the latest callback invocation and what it returned
    fmt         \* the latest format_number invocation: [arg, out]

vars == <<csv, df, pc, log, layout, call, fmt>>

----------------------------------------------------------------------------
(* Bounds of the model *)

\* rows of a free-form file (any mix of locations, dates, nulls, any order)
MaxShort == 2
\* days of the long single-country series (the rolling window is 7)
MaxSeries == 9
\* rows of a second country put beside the long series
MaxOther == 1

\* the most countries in a file the dashboard is started on
MaxWide == 17

----------------------------------------------------------------------------
(* Columns and values *)

\* the columns named by dropna(subset=...)
RequiredColumns == {"date", "location", "total_cases", "total_deaths", "population"}

DerivedColumns ==
    {"case_fatality_rate", "cases_per_million", "deaths_per_million",
     "new_cases", "new_deaths", "new_cases_7day", "new_deaths_7day"}

\* the country names of the data, in the order Python compares strings
LocationOrder ==
    <<"Angola", "Benin", "Chad", "Egypt", "Fiji", "Ghana", "Haiti", "India",
      "Japan", "Kenya", "Libya", "Mali", "Nepal", "Oman", "Peru", "Qatar",
      "Rwanda", "Samoa">>

\* the two countries of the files whose rows are chosen freely
Locations == {"India", "Kenya"}

LocRank(l) == CHOOSE i \in DOMAIN LocationOrder : LocationOrder[i] = l

NaN == [k |-> "nan", c |-> 0]
Inf == [k |-> "inf", c |-> 0]
Num(c) == [k |-> "num", c |-> c]

\* pd.isna on a float: true of NaN only, an infinity is not missing
isna(x) == x.k = "nan"

Max(a, b) == IF a >= b THEN a ELSE b

Min(a, b) == IF a <= b THEN a ELSE b

\* n/d rounded to the nearest integer, ties to even (numpy's rint); n >= 0, d > 0
RoundHalfEven(n, d) ==
    LET q == n \div d
        r == n % d
    IN  IF 2 * r < d THEN q
        ELSE IF 2 * r > d THEN q + 1
        ELSE IF q % 2 = 0 THEN q ELSE q + 1

\* Series.round(2) of n/d, in hundredths; n >= 0, d > 0
Round2(n, d) == (n \div d) * 100 + RoundHalfEven((n % d) * 100, d)

\* DivScaleRound with the quotient cut to two decimals instead of rounded
DivScaleTruncate(x, y, scale) ==
    IF y = 0
    THEN IF x = 0 THEN NaN ELSE Inf
    ELSE Num(((x * scale) \div y) * 100 + (((x * scale) % y) * 100) \div y)

\* (x / y * scale).round(2) of float64 columns, for x >= 0 and y >= 0: a zero
\* divisor does not raise, it yields NaN for 0/0 and an infinity otherwise
DivScaleRound(x, y, scale) ==
    IF y = 0
    THEN IF x = 0 THEN NaN ELSE Inf
    ELSE Num(Round2(x * scale, y))

----------------------------------------------------------------------------
(* The table operations of pandas that load_and_prepare_data uses.  A table *)
(* is a sequence of rows; a row is a record of its cells, with idx the row  *)
(* label read_csv gave it (its position in the file) and missing the set   *)
(* of its columns whose cell is empty.  A Series is a function from row    *)
(* labels to values: assigning one to a column aligns it by label.         *)

\* f itself, held as a table of its values: TLC keeps a function constructor
\* as an expression and evaluates it again at every application
Tabulated(f) == f @@ f

Index(rows) == {rows[i].idx : i \in DOMAIN rows}

Pos(rows, lbl) == CHOOSE i \in DOMAIN rows : rows[i].idx = lbl

\* dropna with population left out of the subset
dropna_ignoring_population(rows, subset) ==
    SelectSeq(rows, LAMBDA r : r.missing \cap (subset \ {"population"}) = {})

\* DataFrame.dropna(subset=...): keep the rows with no empty cell in subset
dropna(rows, subset) == SelectSeq(rows, LAMBDA r : r.missing \cap subset = {})

SortKey(r, col) == IF col = "location" THEN LocRank(r.location) ELSE r[col]

RECURSIVE RowLess(_, _, _)
\* row a sorts strictly before row b under the columns by, compared in turn
RowLess(a, b, by) ==
    IF by = <<>> THEN FALSE
    ELSE LET ka == SortKey(a, Head(by))
             kb == SortKey(b, Head(by))
         IN  ka < kb \/ (ka = kb /\ RowLess(a, b, Tail(by)))

\* x put into the sorted s behind every row that does not sort after it
InsertSorted(s, x, by) ==
    LET k == Cardinality({i \in DOMAIN s : ~RowLess(x, s[i], by)})
    IN  SubSeq(s, 1, k) \o <<x>> \o SubSeq(s, k + 1, Len(s))

\* sort_values whose result is thrown away: the rows stay in file order
sort_values_discarded(rows, by) == rows

RECURSIVE sort_values(_, _)
\* DataFrame.sort_values(by): ascending, rows of equal key in their old order
sort_values(rows, by) ==
    IF rows = <<>> THEN <<>>
    ELSE InsertSorted(sort_values(SubSeq(rows, 1, Len(rows) - 1), by),
                      rows[Len(rows)], by)

\* df[col] = series: each row takes the value the series holds for its label
AssignColumn(rows, col, series) ==
    [i \in DOMAIN rows |-> (col :> series[rows[i].idx]) @@ rows[i]] \o <<>>

\* the positions of the rows of rows[i]'s group that are at or before i
GroupUpTo(rows, i) == {j \in 1..i : rows[j].location = rows[i].location}

SetMax(S) == CHOOSE x \in S : \A y \in S : y <= x

\* diff without the groupby: the difference to the previous row of the table
diff_ungrouped(rows, col) ==
    Tabulated([lbl \in Index(rows) |->
        LET i == Pos(rows, lbl)
        IN  IF i = 1 THEN NaN ELSE Num(rows[i][col] - rows[i - 1][col])])

\* df.groupby('location')[col].diff(): the difference to the previous row of
\* the same location, NaN on the first row of each location
GroupDiff(rows, col) ==
    Tabulated([lbl \in Index(rows) |->
        LET i == Pos(rows, lbl)
            before == GroupUpTo(rows, i) \ {i}
        IN  IF before = {} THEN NaN
            ELSE Num(rows[i][col] - rows[SetMax(before)][col])])

\* Series.fillna(v)
fillna(series, v) ==
    Tabulated([lbl \in DOMAIN series |->
        IF isna(series[lbl]) THEN v ELSE series[lbl].c])

RECURSIVE SumAt(_, _, _)
SumAt(rows, col, S) ==
    IF S = {} THEN 0
    ELSE LET j == CHOOSE x \in S : TRUE
         IN  rows[j][col] + SumAt(rows, col, S \ {j})

\* rolling mean without the groupby: the window runs over the rows of the table
rolling_ungrouped(rows, col, window, min_periods) ==
    Tabulated([lbl \in Index(rows) |->
        LET i == Pos(rows, lbl)
            win == {j \in 1..i : i - j < window}
        IN  IF Cardinality(win) >= min_periods
            THEN [num |-> SumAt(rows, col, win), den |-> Cardinality(win)]
            ELSE [num |-> 0, den |-> 0]])

\* df.groupby('location')[col].rolling(window, min_periods).mean()
\* .reset_index(0, drop=True): per row label, the mean of the last window
\* values of the row's location up to that row; 0/0 (NaN) below min_periods
GroupRollingMean(rows, col, window, min_periods) ==
    Tabulated([lbl \in Index(rows) |->
        LET i == Pos(rows, lbl)
            grp == GroupUpTo(rows, i)
            win == {j \in grp : Cardinality({k \in grp : k >= j}) <= window}
        IN  IF Cardinality(win) >= min_periods
            THEN [num |-> SumAt(rows, col, win), den |-> Cardinality(win)]
            ELSE [num |-> 0, den |-> 0]])

----------------------------------------------------------------------------
(* load_and_prepare_data *)

\* rolling(window=7, min_periods=1)
Window == 7

MinPeriods == 1

\* pd.DataFrame(): no columns, no rows
EmptyFrame == [columns |-> {}, rows |-> <<>>]

\* the exception pd.read_csv(..., parse_dates=['date']) raises on file, "" if none
ReadError(file) ==
    IF file.status = "missing" THEN "FileNotFoundError"
    ELSE IF file.status = "malformed" THEN "ParserError"
    ELSE IF "date" \notin file.columns THEN "ValueError"
    ELSE ""

\* the exception the preparation raises on a table that lacks a column it names
PrepareError(file) ==
    IF RequiredColumns \subseteq file.columns THEN "" ELSE "KeyError"

\* a handler that lets the exception through
OnExceptionReraise(e) == [df |-> EmptyFrame, log |-> {}, raised |-> TRUE]

\* except Exception as e: print(...); return pd.DataFrame()
OnException(e) ==
    [df |-> EmptyFrame, log |-> {<<"Error loading data", e>>}, raised |-> FALSE]

\* (df[x] / df[y] * scale).round(2), a Series over the labels of rows
RatioSeries(rows, x, y, scale) ==
    Tabulated([lbl \in Index(rows) |->
        DivScaleRound(rows[Pos(rows, lbl)][x], rows[Pos(rows, lbl)][y], scale)])

\* case_fatality_rate, cases_per_million, deaths_per_million
WithRates(rows) ==
    AssignColumn(
        AssignColumn(
            AssignColumn(rows, "case_fatality_rate",
                         RatioSeries(rows, "total_deaths", "total_cases", 100)),
            "cases_per_million",
            RatioSeries(rows, "total_cases", "population", 1000000)),
        "deaths_per_million",
        RatioSeries(rows, "total_deaths", "population", 1000000))

\* new_cases, new_deaths
WithDaily(rows) ==
    AssignColumn(
        AssignColumn(rows, "new_cases", fillna(GroupDiff(rows, "total_cases"), 0)),
        "new_deaths", fillna(GroupDiff(rows, "total_deaths"), 0))

\* new_cases_7day, new_deaths_7day
WithRolling(rows) ==
    AssignColumn(
        AssignColumn(rows, "new_cases_7day",
                     GroupRollingMean(rows, "new_cases", Window, MinPeriods)),
        "new_deaths_7day",
        GroupRollingMean(rows, "new_deaths", Window, MinPeriods))

\* the body of the try block on the rows read from the file
Prepare(rows) ==
    WithRolling(WithDaily(WithRates(
        sort_values(dropna(rows, RequiredColumns), <<"location", "date">>))))

\* what a call returns: the table, what it printed, whether it raised
load_and_prepare_data(file) ==
    IF ReadError(file) # "" THEN OnException(ReadError(file))
    ELSE IF PrepareError(file) # "" THEN OnException(PrepareError(file))
    ELSE [df     |-> [columns |-> file.columns \cup DerivedColumns,
                      rows    |-> Prepare(file.rows)],
          log    |-> {},
          raised |-> FALSE]

----------------------------------------------------------------------------
(* The files the model reads *)

RawRow(loc, date, tc, td, pop, missing) ==
    [location |-> loc, date |-> date, total_cases |-> tc, total_deaths |-> td,
     population |-> pop, missing |-> missing]

\* read_csv labels the rows of the file 0, 1, 2, ...
WithIndex(rows) == [i \in DOMAIN rows |-> ("idx" :> (i - 1)) @@ rows[i]] \o <<>>

\* (total_cases, total_deaths) of a row
Counters == {<<0, 0>>, <<0, 1>>, <<10, 1>>, <<15, 2>>}

\* the dates of the rows of a free-form file (days, as numbers)
Dates == {1, 2}

\* the population of a country is the same on all its rows
PopulationOf(l) == IF l = "India" THEN 3 ELSE 1000000

ValidRows ==
    {RawRow(l, d, c[1], c[2], PopulationOf(l), {}) :
        l \in Locations, d \in Dates, c \in Counters}

\* one row per required column, with that cell empty
NullRows == {RawRow("Kenya", 1, 10, 1, 1000000, {col}) : col \in RequiredColumns}

RowChoices == ValidRows \cup NullRows

OkFile(rows) == [status |-> "ok", columns |-> RequiredColumns, rows |-> WithIndex(rows)]

\* files of up to MaxShort rows, each any row of RowChoices, in any order
ShortFiles ==
    {OkFile(rows) : rows \in UNION {[1..n -> RowChoices] : n \in 0..MaxShort}}

RECURSIVE Cumulative(_, _)
\* inc[1] + ... + inc[i]
Cumulative(inc, i) == IF i = 0 THEN 0 ELSE inc[i] + Cumulative(inc, i - 1)

\* a series of n days of Kenya, the cumulative cases growing by inc[i] on day i
\* and one death in ten cases
KenyaSeries(n, inc) ==
    [i \in 1..n |->
        RawRow("Kenya", i, Cumulative(inc, i), Cumulative(inc, i) \div 10,
               PopulationOf("Kenya"), {})] \o <<>>

IndiaSeries(k) == [i \in 1..k |-> RawRow("India", i, 7 * i, i, PopulationOf("India"), {})] \o <<>>

Reverse(s) == [i \in DOMAIN s |-> s[Len(s) + 1 - i]] \o <<>>

\* a series of n days of Kenya beside a few rows of India, in the sorted order
\* or in its reverse
LongRows(n) ==
    UNION {{IndiaSeries(k) \o KenyaSeries(n, inc),
            Reverse(IndiaSeries(k) \o KenyaSeries(n, inc))} :
               inc \in [1..n -> {0, 5}], k \in 0..MaxOther}

LongFiles == {OkFile(rows) : rows \in UNION {LongRows(n) : n \in 1..MaxSeries}}

\* files that cannot be read, or that lack a column the preparation names
BrokenFiles ==
    {[status |-> s, columns |-> {}, rows |-> <<>>] : s \in {"missing", "malformed"}}
    \cup {[status |-> "ok", columns |-> RequiredColumns \ {col}, rows |-> <<>>] :
            col \in RequiredColumns}

PrepareFiles == ShortFiles \cup LongFiles \cup BrokenFiles

----------------------------------------------------------------------------
(* format_number and float formatting.  A string is the sequence of its     *)
(* characters.  The argument of format_number is a float [k, w, h]: k as    *)
(* above, w the whole part and h the hundredths of a value w + h/100 >= 0.  *)

Dec(w, h) == [k |-> "num", w |-> w, h |-> h]

DecNaN == [k |-> "nan", w |-> 0, h |-> 0]

DecInf == [k |-> "inf", w |-> 0, h |-> 0]

\* a counter of the table, as the float it is
DecOfInt(n) == Dec(n, 0)

\* a float of the table kept in hundredths
DecOfHundredths(x) ==
    IF x.k = "num" THEN Dec(x.c \div 100, x.c % 100)
    ELSE [k |-> x.k, w |-> 0, h |-> 0]

DigitChars == <<"0", "1", "2", "3", "4", "5", "6", "7", "8", "9">>

RECURSIVE Digits(_)
\* str(n) of a natural number
Digits(n) ==
    IF n < 10 THEN <<DigitChars[n + 1]>>
    ELSE Digits(n \div 10) \o <<DigitChars[(n % 10) + 1]>>

RECURSIVE Grouped(_)
\* f"{n:,}" of a natural number: its digits in groups of three
Grouped(n) ==
    IF n < 1000 THEN Digits(n)
    ELSE Grouped(n \div 1000) \o <<",">>
         \o <<DigitChars[((n \div 100) % 10) + 1], DigitChars[((n \div 10) % 10) + 1],
              DigitChars[(n % 10) + 1]>>

\* 2^s mod 20, for s >= 2
Pow2Mod20(s) == <<16, 12, 4, 8>>[(s % 4) + 1]

RECURSIVE Exponent(_)
\* the binary exponent of a/20: the e with 2^e <= a/20 < 2^(e+1); a >= 1
Exponent(a) ==
    IF a < 20 THEN Exponent(2 * a) - 1
    ELSE IF a < 40 THEN 0
    ELSE Exponent(a \div 2) + 1

\* The tenths f"{x:.1f}" prints for the double nearest to x = a/20, a odd: a
\* decimal tie between q/10 and (q+1)/10, q = (a-1)/2.  When a/20 is a binary
\* fraction (5 divides a) the tie is exact and goes to the even digit; when it
\* is not, the double lies below or above a/20 as the remainder of
\* a * 2^(52-e) by 20 is below or above 10, and the digits follow the double.
TieTenths(a) ==
    LET q == (a - 1) \div 2
    IN  IF a % 5 = 0
        THEN IF q % 2 = 0 THEN q ELSE q + 1
        ELSE IF ((a % 20) * Pow2Mod20(52 - Exponent(a))) % 20 < 10
             THEN q
             ELSE q + 1

\* the tenths f"{num/unit:.1f}" prints, unit a power of ten >= 1000
TenthsOf(x, unit) ==
    LET step == unit \div 10
        q == x.w \div step
        r == x.w % step
    IN  IF 2 * r < step THEN q
        ELSE IF 2 * r = step /\ x.h = 0 THEN TieTenths(2 * q + 1)
        ELSE q + 1

\* f"{t/10:.1f}" for t tenths
Fixed1(t) == Digits(t \div 10) \o <<".">> \o Digits(t % 10)

\* the integer f"{num:.0f}" prints: halves go to the even integer
RoundedInt(x) ==
    IF x.h < 50 THEN x.w
    ELSE IF x.h > 50 THEN x.w + 1
    ELSE IF x.w % 2 = 0 THEN x.w ELSE x.w + 1

\* format_number with > for >= at each threshold
format_number_strict(num) ==
    IF num.k = "nan" THEN <<"N", "/", "A">>
    ELSE IF num.k = "inf" THEN <<"i", "n", "f", "B">>
    ELSE IF num.w > 1000000000 \/ (num.w = 1000000000 /\ num.h > 0)
         THEN Fixed1(TenthsOf(num, 1000000000)) \o <<"B">>
    ELSE IF num.w > 1000000 \/ (num.w = 1000000 /\ num.h > 0)
         THEN Fixed1(TenthsOf(num, 1000000)) \o <<"M">>
    ELSE IF num.w > 1000 \/ (num.w = 1000 /\ num.h > 0)
         THEN Fixed1(TenthsOf(num, 1000)) \o <<"K">>
    ELSE Grouped(RoundedInt(num))

format_number(num) ==
    IF num.k = "nan" THEN <<"N", "/", "A">>
    ELSE IF num.k = "inf" THEN <<"i", "n", "f", "B">>
    ELSE IF num.w >= 1000000000 THEN Fixed1(TenthsOf(num, 1000000000)) \o <<"B">>
    ELSE IF num.w >= 1000000 THEN Fixed1(TenthsOf(num, 1000000)) \o <<"M">>
    ELSE IF num.w >= 1000 THEN Fixed1(TenthsOf(num, 1000)) \o <<"K">>
    ELSE Grouped(RoundedInt(num))

\* the whole parts and the hundredths of the arguments format_number is given
FormatWholes ==
    {0, 1, 2, 12, 999, 1000, 1049, 1050, 1150, 1250, 1350, 1500, 1999,
     999949, 999950, 999999, 1000000, 1150000, 2300000, 2350000, 999949999,
     999950000, 999999999, 1000000000, 1250000000, 2147483647}

FormatHundredths == {0, 1, 49, 50, 51, 99}

FormatArgs ==
    {DecNaN} \cup {Dec(w, h) : w \in FormatWholes, h \in FormatHundredths}

----------------------------------------------------------------------------
(* The process *)

\* Python's None, as the value of a control
None == "None"

NoLayout ==
    [country_options |-> <<>>, country_value |-> None,
     comparison_options |-> <<>>, comparison_value |-> <<>>,
     start_date |-> [kind |-> "unset", d |-> 0],
     end_date |-> [kind |-> "unset", d |-> 0]]

NoCall == [op |-> "none", raised |-> FALSE, out |-> <<>>]

NoFmt == [arg |-> DecNaN, out |-> <<>>]

\* df = load_and_prepare_data(), at import
Load ==
    /\ pc = "start"
    /\ LET r == load_and_prepare_data(csv)
       IN  /\ df' = r.df
           /\ log' = log \cup r.log
           /\ pc' = IF r.raised THEN "crashed" ELSE "loaded"
    /\ UNCHANGED <<csv, layout, call, fmt>>

InitPrepare ==
    /\ csv \in PrepareFiles
    /\ df = EmptyFrame
    /\ pc = "start"
    /\ log = {}
    /\ layout = NoLayout
    /\ call = NoCall
    /\ fmt = NoFmt

NextPrepare == Load

\* load_and_prepare_data applied to every file of PrepareFiles
SpecPrepare == InitPrepare /\ [][NextPrepare]_vars

----------------------------------------------------------------------------
(* Properties of load_and_prepare_data, checked under SpecPrepare *)

\* load_and_prepare_data has returned
Returned == pc = "loaded"

\* the file could be read and holds the columns the preparation names
SourceReadable == csv.status = "ok" /\ RequiredColumns \subseteq csv.columns

\* the rows of location l in the table, in the table's order
Partition(l) == SelectSeq(df.rows, LAMBDA r : r.location = l)

\* c is x/y to the nearest hundredth, in hundredths; x >= 0, y > 0
NearestHundredth(c, x, y) ==
    LET d == c - 100 * (x \div y)
        e == d * y - 100 * (x % y)
    IN  d \in 0..100 /\ 2 * e <= y /\ 2 * (0 - e) <= y

RECURSIVE SeqSum(_, _, _, _)
\* p[a].col + ... + p[b].col
SeqSum(p, col, a, b) == IF a > b THEN 0 ELSE p[a][col] + SeqSum(p, col, a + 1, b)

\* col7 of every row i of p is the mean of col over rows max(1, i-6)..i of p
MeanOfLastSeven(p, col, col7) ==
    \A i \in DOMAIN p :
        LET a == Max(1, i - 6)
        IN  /\ p[i][col7].den > 0
            /\ p[i][col7].num * (i - a + 1) = SeqSum(p, col, a, i) * p[i][col7].den

\* col of the first row of p is 0, of every other row the growth of total
FirstDifference(p, total, col) ==
    \A i \in DOMAIN p :
        p[i][col] = IF i = 1 THEN 0 ELSE p[i][total] - p[i - 1][total]

\* C1: in every location partition of the output, ordered by date, new_cases is
\* 0 on the first row and total_cases[i] - total_cases[i-1] on every later row,
\* never a difference across two locations; the same for new_deaths over
\* total_deaths.
C1_DailyDifferences ==
    Returned =>
        \A l \in Locations :
            LET p == Partition(l)
            IN  /\ \A i, j \in DOMAIN p : i < j => p[i].date <= p[j].date
                /\ FirstDifference(p, "total_cases", "new_cases")
                /\ FirstDifference(p, "total_deaths", "new_deaths")

\* two locations, one with several rows, a growth in each counter, and a row
\* whose predecessor in the table belongs to the other location and holds other
\* counters
C1_Witness ==
    /\ Returned
    /\ \A l \in Locations : Len(Partition(l)) >= 1
    /\ \E l \in Locations : Len(Partition(l)) >= 3
    /\ \E r \in Index(df.rows) : df.rows[Pos(df.rows, r)].new_cases > 0
    /\ \E r \in Index(df.rows) : df.rows[Pos(df.rows, r)].new_deaths > 0
    /\ \E i \in DOMAIN df.rows :
          /\ i > 1
          /\ df.rows[i].location # df.rows[i - 1].location
          /\ df.rows[i].total_cases # df.rows[i - 1].total_cases
          /\ df.rows[i].total_deaths # df.rows[i - 1].total_deaths

\* C2: new_cases_7day of row i of a location partition is the arithmetic mean of
\* new_cases over rows max(0,i-6)..i of the same partition (at most 7 samples,
\* as few as 1 at the start, none from another location); the same for
\* new_deaths_7day over new_deaths.
C2_SevenDayMean ==
    Returned =>
        \A l \in Locations :
            /\ MeanOfLastSeven(Partition(l), "new_cases", "new_cases_7day")
            /\ MeanOfLastSeven(Partition(l), "new_deaths", "new_deaths_7day")

\* a partition of more than 8 rows behind the rows of another location, with a
\* non-zero sample that has left the window of its last row and one still in it
C2_Witness ==
    /\ Returned
    /\ LET p == Partition("Kenya")
           n == Len(p)
       IN  /\ n >= 9
           /\ \E i \in 1..(n - 7) : p[i].new_cases > 0 /\ p[i].new_deaths > 0
           /\ p[n].new_cases_7day.num > 0
           /\ p[n].new_cases_7day.den = 7
    /\ Len(Partition("India")) >= 1
    /\ df.rows[1].location = "India"

\* C3: case_fatality_rate is missing (NaN) exactly when total_cases = 0, whatever
\* total_deaths is, and for total_cases # 0 it is total_deaths/total_cases*100
\* rounded to 2 decimals; the computation never raises.
C3_RateMissingIffNoCases ==
    /\ pc # "crashed"
    /\ Returned /\ SourceReadable =>
          \A i \in DOMAIN df.rows :
              LET r == df.rows[i]
              IN  /\ isna(r.case_fatality_rate) <=> r.total_cases = 0
                  /\ r.total_cases # 0 =>
                        /\ r.case_fatality_rate.k = "num"
                        /\ NearestHundredth(r.case_fatality_rate.c,
                                            r.total_deaths * 100, r.total_cases)

\* C4: the output holds no row with a null date, location, total_cases,
\* total_deaths or population, and holds every input row in which all five are
\* non-null, exactly once and with the cells it has in the file.
C4_DropsExactlyNullRows ==
    Returned /\ SourceReadable =>
        /\ \A i \in DOMAIN df.rows : df.rows[i].missing \cap RequiredColumns = {}
        /\ \A k \in DOMAIN csv.rows :
              csv.rows[k].missing \cap RequiredColumns = {} =>
                 /\ Cardinality({i \in DOMAIN df.rows :
                                    df.rows[i].idx = csv.rows[k].idx}) = 1
                 /\ \E i \in DOMAIN df.rows :
                       \A col \in RequiredColumns \cup {"idx"} :
                           df.rows[i][col] = csv.rows[k][col]
        /\ \A i \in DOMAIN df.rows :
              \E k \in DOMAIN csv.rows : csv.rows[k].idx = df.rows[i].idx

\* a file with a row that lacks its population and a complete row
C4_Witness ==
    /\ Returned
    /\ \E k \in DOMAIN csv.rows : csv.rows[k].missing = {"population"}
    /\ \E k \in DOMAIN csv.rows : csv.rows[k].missing = {}
    /\ Len(df.rows) = 1

\* the dates of the complete rows of the file are unique within each location
UniqueDates ==
    \A j, k \in DOMAIN csv.rows :
        /\ j # k
        /\ csv.rows[j].missing = {} /\ csv.rows[k].missing = {}
        /\ csv.rows[j].location = csv.rows[k].location
        => csv.rows[j].date # csv.rows[k].date

\* C5: the output, with its derived columns, is sorted by (location, date)
\* ascending, and the dates within a location are strictly increasing when the
\* input has unique dates per location.
C5_SortedByLocationDate ==
    Returned /\ SourceReadable =>
        /\ \A i, j \in DOMAIN df.rows :
              i < j =>
                  /\ LocRank(df.rows[i].location) <= LocRank(df.rows[j].location)
                  /\ df.rows[i].location = df.rows[j].location
                        => df.rows[i].date <= df.rows[j].date
        /\ UniqueDates =>
              \A i, j \in DOMAIN df.rows :
                  i < j /\ df.rows[i].location = df.rows[j].location
                      => df.rows[i].date < df.rows[j].date
        /\ \A i \in DOMAIN df.rows : DerivedColumns \subseteq DOMAIN df.rows[i]

\* a file whose rows are out of order, by location and by date
C5_Witness ==
    /\ Returned
    /\ Len(df.rows) >= 3
    /\ UniqueDates
    /\ \E k \in DOMAIN csv.rows :
          /\ k > 1
          /\ LocRank(csv.rows[k].location) < LocRank(csv.rows[k - 1].location)
    /\ \E k \in DOMAIN csv.rows :
          /\ k > 1
          /\ csv.rows[k].location = csv.rows[k - 1].location
          /\ csv.rows[k].date < csv.rows[k - 1].date

\* C6: when the file cannot be read or parsed, or a step of the preparation
\* fails, load_and_prepare_data does not raise: it logs the failure and returns
\* an empty table, so the load itself does not abort the start-up.
C6_LoadFailureIsEmptyTable ==
    /\ pc # "crashed"
    /\ Returned /\ ~SourceReadable =>
          /\ df = EmptyFrame
          /\ \E line \in log : line[1] = "Error loading data"

\* the load has returned on a malformed file
C6_Witness == Returned /\ csv.status = "malformed"

\* the two Kenya rows (10, 1, 1000000) and (15, 2, 1000000)
KenyaExample ==
    OkFile(<<RawRow("Kenya", 1, 10, 1, 1000000, {}),
             RawRow("Kenya", 2, 15, 2, 1000000, {})>>)

\* C9: on every row, cases_per_million is total_cases * 1e6 / population rounded
\* to 2 decimals and deaths_per_million is total_deaths * 1e6 / population
\* rounded to 2 decimals, of that row alone; the two Kenya rows
\* (10,1,1000000), (15,2,1000000) yield new_cases [0,5], case_fatality_rate
\* [10.0, 13.33] and cases_per_million [10.0, 15.0].
C9_PerMillionAndExample ==
    Returned /\ SourceReadable =>
        /\ \A i \in DOMAIN df.rows :
              LET r == df.rows[i]
              IN  /\ r.cases_per_million.k = "num"
                  /\ NearestHundredth(r.cases_per_million.c,
                                      r.total_cases * 1000000, r.population)
                  /\ r.deaths_per_million.k = "num"
                  /\ NearestHundredth(r.deaths_per_million.c,
                                      r.total_deaths * 1000000, r.population)
        /\ csv = KenyaExample =>
              /\ Len(df.rows) = 2
              /\ <<df.rows[1].new_cases, df.rows[2].new_cases>> = <<0, 5>>
              /\ <<df.rows[1].case_fatality_rate, df.rows[2].case_fatality_rate>>
                    = <<Num(1000), Num(1333)>>
              /\ <<df.rows[1].cases_per_million, df.rows[2].cases_per_million>>
                    = <<Num(1000), Num(1500)>>

\* the output of the Kenya example, whose second rate 2/15*100 is not a whole
\* number of hundredths
C9_Witness ==
    /\ Returned
    /\ csv = KenyaExample
    /\ Len(df.rows) = 2
    /\ (df.rows[2].total_deaths * 100 * 100) % df.rows[2].total_cases # 0

----------------------------------------------------------------------------
(* format_number applied to every argument of FormatArgs *)

\* one call of format_number
FormatNumber ==
    /\ fmt.out = <<>>
    /\ fmt' = [arg |-> fmt.arg, out |-> format_number(fmt.arg)]
    /\ UNCHANGED <<csv, df, pc, log, layout, call>>

InitFormat ==
    /\ csv = [status |-> "missing", columns |-> {}, rows |-> <<>>]
    /\ df = EmptyFrame
    /\ pc = "start"
    /\ log = {}
    /\ layout = NoLayout
    /\ call = NoCall
    /\ fmt \in {[arg |-> a, out |-> <<>>] : a \in FormatArgs}

NextFormat == FormatNumber

SpecFormat == InitFormat /\ [][NextFormat]_vars

\* the natural number the digits s spell, and -1 when s is not all digits
RECURSIVE ParseNat(_)
ParseNat(s) ==
    IF s = <<>> THEN 0 - 1
    ELSE LET last == s[Len(s)]
             d == IF \E i \in 1..10 : DigitChars[i] = last
                  THEN (CHOOSE i \in 1..10 : DigitChars[i] = last) - 1
                  ELSE 0 - 1
             front == SubSeq(s, 1, Len(s) - 1)
         IN  IF d < 0 THEN 0 - 1
             ELSE IF front = <<>> THEN d
             ELSE IF ParseNat(front) < 0 THEN 0 - 1
             ELSE ParseNat(front) * 10 + d

\* s is digits, a point, one digit and the suffix, and the number it spells is
\* x/unit to the nearest tenth
OneDecimalWithSuffix(s, x, unit, suffix) ==
    /\ Len(s) >= 4
    /\ s[Len(s)] = suffix
    /\ s[Len(s) - 2] = "."
    /\ LET whole == ParseNat(SubSeq(s, 1, Len(s) - 3))
           tenth == ParseNat(<<s[Len(s) - 1]>>)
           step  == unit \div 10
           d     == (whole * 10 + tenth) * step - x.w
       IN  /\ whole >= 0 /\ tenth >= 0
           /\ s[1] = "0" => Len(s) = 4
           /\ 2 * d <= step
           /\ 2 * d >= IF x.h = 0 THEN 0 - step ELSE 2 - step

\* s is an integer with no suffix, its digits in groups of three, and it is x
\* to the nearest integer
GroupedInteger(s, x) ==
    LET plain == SelectSeq(s, LAMBDA ch : ch # ",")
        n == ParseNat(plain)
    IN  /\ n >= 0
        /\ plain[1] = "0" => Len(plain) = 1
        /\ \A i \in DOMAIN s : s[i] = "," <=> (Len(s) - i) % 4 = 3 /\ i > 1
        /\ s[1] # ","
        /\ \/ n = x.w /\ x.h <= 50
           \/ n = x.w + 1 /\ x.h >= 50

\* C8: format_number renders NaN as "N/A"; otherwise n/1e9 with one decimal and
\* "B" for n >= 1e9, n/1e6 with one decimal and "M" for 1e6 <= n < 1e9, n/1e3
\* with one decimal and "K" for 1e3 <= n < 1e6, and a thousands-grouped integer
\* with no suffix for n < 1e3; 999 -> "999", 1500 -> "1.5K", 2300000 -> "2.3M".
C8_FormatNumber ==
    fmt.out # <<>> =>
        LET n == fmt.arg
            s == fmt.out
        IN  /\ n.k = "nan" => s = <<"N", "/", "A">>
            /\ n.k = "num" /\ n.w >= 1000000000
                  => OneDecimalWithSuffix(s, n, 1000000000, "B")
            /\ n.k = "num" /\ n.w >= 1000000 /\ n.w < 1000000000
                  => OneDecimalWithSuffix(s, n, 1000000, "M")
            /\ n.k = "num" /\ n.w >= 1000 /\ n.w < 1000000
                  => OneDecimalWithSuffix(s, n, 1000, "K")
            /\ n.k = "num" /\ n.w < 1000 => GroupedInteger(s, n)
            /\ n = Dec(999, 0) => s = <<"9", "9", "9">>
            /\ n = Dec(1500, 0) => s = <<"1", ".", "5", "K">>
            /\ n = Dec(2300000, 0) => s = <<"2", ".", "3", "M">>

\* 1000, the least value that takes a suffix, rendered as "1.0K"
C8_Witness == fmt.arg = Dec(1000, 0) /\ fmt.out = <<"1", ".", "0", "K">>

----------------------------------------------------------------------------
(* The page layout and the callbacks *)

\* DataFrame.empty: no columns or no rows
empty(frame) == frame.columns = {} \/ frame.rows = <<>>

\* sorted(df['location'].unique())
SortedLocations(frame) ==
    SelectSeq(LocationOrder,
              LAMBDA l : \E i \in DOMAIN frame.rows : frame.rows[i].location = l)

SetMin(S) == CHOOSE x \in S : \A y \in S : x <= y

DatesOf(rows) == {rows[i].date : i \in DOMAIN rows}

\* The controls of app.layout, built when the module is imported.  The value
\* of country-dropdown reads df['location'] before it tests df.empty: on a
\* table without that column the expression raises KeyError.
LayoutOf(frame) ==
    IF "location" \notin frame.columns
    THEN [raised |-> TRUE, layout |-> NoLayout]
    ELSE [raised |-> FALSE,
          layout |->
            [country_options |->
                IF ~empty(frame) THEN SortedLocations(frame) ELSE <<>>,
             country_value |->
                IF \E i \in DOMAIN frame.rows : frame.rows[i].location = "Kenya"
                THEN "Kenya"
                ELSE IF ~empty(frame) THEN frame.rows[1].location ELSE None,
             comparison_options |->
                IF ~empty(frame) THEN SortedLocations(frame) ELSE <<>>,
             comparison_value |->
                IF ~empty(frame) THEN <<"United States", "India", "Brazil">>
                ELSE <<>>,
             start_date |->
                IF ~empty(frame)
                THEN [kind |-> "date", d |-> SetMin(DatesOf(frame.rows))]
                ELSE [kind |-> "a year before today", d |-> 0],
             end_date |->
                IF ~empty(frame)
                THEN [kind |-> "date", d |-> SetMax(DatesOf(frame.rows))]
                ELSE [kind |-> "today", d |-> 0]]]

\* app.layout = html.Div([...]), at import: an exception ends the process
BuildLayout ==
    /\ pc = "loaded"
    /\ LET r == LayoutOf(df)
       IN  /\ pc' = IF r.raised THEN "crashed" ELSE "serving"
           /\ layout' = r.layout
    /\ UNCHANGED <<csv, df, log, call, fmt>>

\* f"{x:.1f}%" of a float of the table kept in hundredths
FormatRate(x) ==
    IF x.k = "nan" THEN <<"n", "a", "n", "%">>
    ELSE IF x.k = "inf" THEN <<"i", "n", "f", "%">>
    ELSE Fixed1(IF x.c % 10 < 5 THEN x.c \div 10
                ELSE IF x.c % 10 > 5 THEN x.c \div 10 + 1
                ELSE TieTenths(x.c \div 5)) \o <<"%">>

\* the rows of location c dated within [s, e]
CountryInRange(rows, c, s, e) ==
    SelectSeq(rows, LAMBDA r : r.location = c /\ r.date >= s /\ r.date <= e)

\* update_kpi_cards with iloc[0] for iloc[-1]: the first row of the filtered
\* table
update_kpi_cards_first_row(frame, selected_country, start_date, end_date) ==
    IF empty(frame) \/ selected_country = None THEN <<>>
    ELSE LET filtered_df ==
                 CountryInRange(frame.rows, selected_country, start_date, end_date)
         IN  IF filtered_df = <<>> THEN <<>>
             ELSE LET latest_data == filtered_df[1]
                  IN  <<[label |-> "Total Cases", idx |-> latest_data.idx,
                         value |-> format_number(DecOfInt(latest_data.total_cases))],
                        [label |-> "Total Deaths", idx |-> latest_data.idx,
                         value |-> format_number(DecOfInt(latest_data.total_deaths))],
                        [label |-> "Case Fatality Rate", idx |-> latest_data.idx,
                         value |-> FormatRate(latest_data.case_fatality_rate)],
                        [label |-> "Cases per Million", idx |-> latest_data.idx,
                         value |-> format_number(
                                     DecOfHundredths(latest_data.cases_per_million))]>>

\* what update_kpi_cards returns: the cards, none for []
update_kpi_cards(frame, selected_country, start_date, end_date) ==
    IF empty(frame) \/ selected_country = None THEN <<>>
    ELSE LET filtered_df ==
                 CountryInRange(frame.rows, selected_country, start_date, end_date)
         IN  IF filtered_df = <<>> THEN <<>>
             ELSE LET latest_data == filtered_df[Len(filtered_df)]
                  IN  <<[label |-> "Total Cases", idx |-> latest_data.idx,
                         value |-> format_number(DecOfInt(latest_data.total_cases))],
                        [label |-> "Total Deaths", idx |-> latest_data.idx,
                         value |-> format_number(DecOfInt(latest_data.total_deaths))],
                        [label |-> "Case Fatality Rate", idx |-> latest_data.idx,
                         value |-> FormatRate(latest_data.case_fatality_rate)],
                        [label |-> "Cases per Million", idx |-> latest_data.idx,
                         value |-> format_number(
                                     DecOfHundredths(latest_data.cases_per_million))]>>

\* update_kpi_cards that keeps its filtered table in the module-level df
UpdateKpiCardsInPlace(selected_country, start_date, end_date) ==
    /\ pc = "serving"
    /\ call' = [op |-> "update_kpi_cards", selected_country |-> selected_country,
                start_date |-> start_date, end_date |-> end_date,
                raised |-> FALSE,
                out |-> update_kpi_cards(df, selected_country, start_date, end_date)]
    /\ df' = [df EXCEPT !.rows =
                CountryInRange(df.rows, selected_country, start_date, end_date)]
    /\ UNCHANGED <<csv, pc, log, layout, fmt>>

\* the callback of the KPI cards
UpdateKpiCards(selected_country, start_date, end_date) ==
    /\ pc = "serving"
    /\ call' = [op |-> "update_kpi_cards", selected_country |-> selected_country,
                start_date |-> start_date, end_date |-> end_date,
                raised |-> FALSE,
                out |-> update_kpi_cards(df, selected_country, start_date, end_date)]
    /\ UNCHANGED <<csv, df, pc, log, layout, fmt>>

\* nlargest(15, 'total_cases')
TopCountries == 15

\* head(n) for nlargest(n, col): the first n rows, whatever their col
nlargest_as_head(rows, n, col) == SubSeq(rows, 1, Min(n, Len(rows)))

\* DataFrame.nlargest(n, col): the n rows of greatest col, greatest first, rows
\* of equal col in their order in the table
nlargest(rows, n, col) ==
    [k \in 1..Min(n, Len(rows)) |->
        rows[CHOOSE i \in DOMAIN rows :
                Cardinality({j \in DOMAIN rows :
                    \/ rows[j][col] > rows[i][col]
                    \/ rows[j][col] = rows[i][col] /\ j < i}) = k - 1]] \o <<>>

\* the labels of rows, in order
Labels(rows) == [i \in DOMAIN rows |-> rows[i].idx] \o <<>>

\* latest_global_df[[...]].to_dict('records')
TableData(rows) ==
    [i \in DOMAIN rows |->
        [location |-> rows[i].location, date |-> rows[i].date,
         total_cases |-> rows[i].total_cases, total_deaths |-> rows[i].total_deaths,
         cases_per_million |-> rows[i].cases_per_million,
         case_fatality_rate |-> rows[i].case_fatality_rate]] \o <<>>

\* go.Figure() with the annotation "No data available"
EmptyFigure == [text |-> "No data available", rows |-> <<>>]

\* What update_interactive_charts returns or raises.  A figure is its
\* annotation and the labels of the rows it plots.  With no row in the date
\* range the latest date is NaT, and NaT.strftime raises ValueError.
update_interactive_charts(frame, selected_country, comparison_countries, start_date, end_date) ==
    IF empty(frame)
    THEN [raised |-> FALSE,
          out |-> <<EmptyFigure, EmptyFigure, EmptyFigure, EmptyFigure, <<>> >>]
    ELSE LET date_filtered_df ==
                 SelectSeq(frame.rows,
                           LAMBDA r : r.date >= start_date /\ r.date <= end_date)
             country_df ==
                 SelectSeq(date_filtered_df,
                           LAMBDA r : r.location = selected_country)
             comparison_df ==
                 SelectSeq(date_filtered_df,
                           LAMBDA r : \E i \in DOMAIN comparison_countries :
                                          comparison_countries[i] = r.location)
         IN  IF date_filtered_df = <<>>
             THEN [raised |-> TRUE, out |-> <<"ValueError">>]
             ELSE LET latest_date == SetMax(DatesOf(date_filtered_df))
                      latest_global_df ==
                          SelectSeq(date_filtered_df,
                                    LAMBDA r : r.date = latest_date)
                  IN  [raised |-> FALSE,
                       out |-> <<[text |-> "", rows |-> Labels(country_df)],
                                 [text |-> "", rows |-> Labels(comparison_df)],
                                 [text |-> "", rows |-> Labels(latest_global_df)],
                                 [text |-> "",
                                  rows |-> Labels(nlargest(latest_global_df,
                                                  TopCountries, "total_cases"))],
                                 TableData(latest_global_df)>>]

\* the callback of the interactive charts and the table
UpdateInteractiveCharts(selected_country, comparison_countries, start_date, end_date) ==
    /\ pc = "serving"
    /\ LET r == update_interactive_charts(df, selected_country,
                    comparison_countries, start_date, end_date)
       IN  call' = [op |-> "update_interactive_charts",
                    selected_country |-> selected_country,
                    comparison_countries |-> comparison_countries,
                    start_date |-> start_date, end_date |-> end_date,
                    raised |-> r.raised, out |-> r.out]
    /\ UNCHANGED <<csv, df, pc, log, layout, fmt>>

\* image_configs
ImageFiles == <<"global_cases_deaths.png", "kenya_trend.png", "correlation_heatmap.png">>

\* the callback of the static charts; present are the files found on disk,
\* printed the lines check_file_exists prints during the call
LoadStaticImages(selected_country, present) ==
    /\ pc = "serving"
    /\ call' = [op |-> "load_static_images", raised |-> FALSE,
                out |-> [i \in 1..3 |->
                            IF ImageFiles[i] \in present THEN "img"
                            ELSE "placeholder"] \o <<>>,
                printed |-> {<<"File not found", ImageFiles[i]>> :
                                i \in {j \in 1..3 : ImageFiles[j] \notin present}}]
    /\ UNCHANGED <<csv, df, pc, log, layout, fmt>>

\* the (location, date) cells of the files the dashboard is started on, in the
\* order of their rows in the file
CellOrder == <<<<"Kenya", 2>>, <<"India", 1>>, <<"Kenya", 1>>, <<"India", 2>>>>

\* One row per cell.  g gives each a content: "some" is 10 cases and 1 death
\* on day 1, 15 and 2 on day 2; "zero" is no case and no death; "null" is a
\* row whose total_cases cell is empty.
GridRows(g) ==
    [i \in DOMAIN CellOrder |->
        LET l == CellOrder[i][1]
            d == CellOrder[i][2]
        IN  RawRow(l, d,
                   IF g[i] = "some" THEN 5 + 5 * d ELSE 0,
                   IF g[i] = "some" THEN d ELSE 0,
                   PopulationOf(l),
                   IF g[i] = "null" THEN {"total_cases"} ELSE {})] \o <<>>

\* The rows of n countries: a row on day 1 for the first, then a row on day 2
\* for each, in the order of the names.  The cases of the rows of day 2 are
\* neither all different nor in the order of the rows.
WideRows(n) ==
    <<RawRow(LocationOrder[1], 1, 5, 0, PopulationOf(LocationOrder[1]), {})>>
    \o [i \in 1..n |->
           RawRow(LocationOrder[i], 2, 5 + 10 * ((i * 3) % 5), (i * 3) % 5,
                  PopulationOf(LocationOrder[i]), {})]

\* files with fewer countries than the bar chart shows, as many, and more,
\* their rows in the reverse of the sorted order
WideFiles == {OkFile(Reverse(WideRows(n))) : n \in (TopCountries - 1)..MaxWide}

AppFiles ==
    BrokenFiles
    \cup {OkFile(GridRows(g)) : g \in [DOMAIN CellOrder -> {"null", "zero", "some"}]}
    \cup WideFiles

\* what the user may select: a country of the data, one that has no rows, None
CountryArgs == {"Kenya", "Brazil", None}

\* the countries compared: none (None or [], alike under "or []") or some
ComparisonArgs == {<<>>, <<"India", "Brazil">>}

\* the dates of the data and the day before them
DateArgs == Dates \cup {0}

Init ==
    /\ csv \in AppFiles
    /\ df = EmptyFrame
    /\ pc = "start"
    /\ log = {}
    /\ layout = NoLayout
    /\ call = NoCall
    /\ fmt = NoFmt

Next ==
    \/ Load
    \/ BuildLayout
    \/ \E c \in CountryArgs, s \in DateArgs, e \in DateArgs : UpdateKpiCards(c, s, e)
    \/ \E c \in CountryArgs, m \in ComparisonArgs, s \in DateArgs, e \in DateArgs :
           UpdateInteractiveCharts(c, m, s, e)
    \/ \E c \in CountryArgs, present \in SUBSET {ImageFiles[i] : i \in 1..3} :
           LoadStaticImages(c, present)

\* the process: the import of the module, then the callbacks in any order
Spec == Init /\ [][Next]_vars

----------------------------------------------------------------------------
(* Properties of the process, checked under Spec *)

\* the load failed and left pd.DataFrame() in df
LoadFailed == pc # "start" /\ df = EmptyFrame

\* C7: when the loaded dataset is empty (load failure) every view degrades
\* without error: the layout is built with country and comparison dropdowns
\* that have no options and no value and with the default date range,
\* update_kpi_cards returns no cards, and update_interactive_charts returns
\* four "No data available" figures and an empty table.
C7_EmptyDatasetDegrades ==
    /\ LoadFailed /\ pc # "loaded" =>
          /\ pc = "serving"
          /\ layout.country_options = <<>> /\ layout.country_value = None
          /\ layout.comparison_options = <<>> /\ layout.comparison_value = <<>>
          /\ layout.start_date.kind = "a year before today"
          /\ layout.end_date.kind = "today"
    /\ LoadFailed /\ call.op = "update_kpi_cards" =>
          ~call.raised /\ call.out = <<>>
    /\ LoadFailed /\ call.op = "update_interactive_charts" =>
          /\ ~call.raised
          /\ call.out = <<EmptyFigure, EmptyFigure, EmptyFigure, EmptyFigure, <<>> >>

\* C10: the dataset is loaded once, at process start, and is immutable after:
\* whatever update_kpi_cards, update_interactive_charts and load_static_images
\* are called with, df keeps the rows and the values it had when
\* load_and_prepare_data returned.
C10_TableImmutable == [][pc # "start" => df' = df]_vars

\* a table of four rows behind a call of update_interactive_charts that
\* returned figures
C10_Witness ==
    /\ pc = "serving"
    /\ Len(df.rows) = 4
    /\ call.op = "update_interactive_charts"
    /\ ~call.raised
    /\ Len(call.out[5]) >= 2

\* the positions of the rows of df dated within the range of the last call
RowsInRange ==
    {i \in DOMAIN df.rows :
        df.rows[i].date >= call.start_date /\ df.rows[i].date <= call.end_date}

\* C11: with a non-empty dataset update_interactive_charts never raises,
\* whatever the filters: also for a date range that selects no row (start
\* after end, or a range outside the data) and for a country without rows in
\* the range it returns four figures and a table, which may be empty.
C11_ChartsNeverRaise ==
    call.op = "update_interactive_charts" /\ ~empty(df) =>
        ~call.raised /\ Len(call.out) = 5

\* the positions of the rows of df the cards of the last call were taken from
CardRows ==
    {i \in DOMAIN df.rows : \E k \in DOMAIN call.out : call.out[k].idx = df.rows[i].idx}

\* C12: when the row update_kpi_cards shows has an undefined case fatality
\* rate, its total_cases being zero, the Case Fatality Rate card reads "N/A",
\* as the count cards do through format_number, and not "nan" or "inf".
C12_RateCardNotAvailable ==
    /\ call.op = "update_kpi_cards"
    /\ call.out # <<>>
    /\ \E i \in CardRows : df.rows[i].total_cases = 0
    => /\ call.out[3].label = "Case Fatality Rate"
       /\ call.out[3].value = <<"N", "/", "A">>

\* the positions of the rows of df of the country of the last call dated
\* within its range
CountryRowsInRange ==
    {i \in RowsInRange : df.rows[i].location = call.selected_country}

\* C13: update_kpi_cards returns no cards when the table is empty, when no
\* country is selected, or when the selected country has no row dated within
\* [start_date, end_date]; otherwise its four cards (total cases, total
\* deaths, case fatality rate, cases per million) all show the one row of the
\* selected country that has the greatest date within the range.
C13_CardsShowLatestRow ==
    call.op = "update_kpi_cards" =>
        /\ ~call.raised
        /\ IF empty(df) \/ call.selected_country = None \/ CountryRowsInRange = {}
           THEN call.out = <<>>
           ELSE \E i \in CountryRowsInRange :
                  /\ \A j \in CountryRowsInRange : df.rows[j].date <= df.rows[i].date
                  /\ Len(call.out) = 4
                  /\ \A k \in 1..4 : call.out[k].idx = df.rows[i].idx
                  /\ call.out[1].label = "Total Cases"
                  /\ call.out[1].value = format_number(DecOfInt(df.rows[i].total_cases))
                  /\ call.out[2].label = "Total Deaths"
                  /\ call.out[2].value = format_number(DecOfInt(df.rows[i].total_deaths))
                  /\ call.out[3].label = "Case Fatality Rate"
                  /\ call.out[3].value = FormatRate(df.rows[i].case_fatality_rate)
                  /\ call.out[4].label = "Cases per Million"
                  /\ call.out[4].value =
                        format_number(DecOfHundredths(df.rows[i].cases_per_million))

\* cards of Kenya over a range that holds two rows of Kenya and a row of
\* India: the cards show the later row of Kenya
C13_Witness ==
    /\ call.op = "update_kpi_cards"
    /\ call.selected_country = "Kenya"
    /\ Cardinality(CountryRowsInRange) = 2
    /\ \E i \in RowsInRange : df.rows[i].location = "India"
    /\ Len(call.out) = 4
    /\ \E i \in CountryRowsInRange :
          df.rows[i].date = 2 /\ df.rows[i].total_cases = 15
                              /\ call.out[1].idx = df.rows[i].idx
                              /\ call.out[1].value = <<"1", "5">>

\* the positions of the rows of df that have the greatest date within the
\* range of the last call
LatestRowsInRange ==
    {i \in RowsInRange : \A j \in RowsInRange : df.rows[j].date <= df.rows[i].date}

\* the row of df labelled lbl
RowLabelled(lbl) == df.rows[CHOOSE i \in DOMAIN df.rows : df.rows[i].idx = lbl]

\* C14: with a non-empty dataset and a date range that selects a row, the
\* table and the scatter of update_interactive_charts hold exactly the rows
\* dated the greatest date present within [start_date, end_date], at most one
\* per location, whatever the selected and the comparison countries; the
\* top-countries bar holds at most 15 of them, none with fewer total_cases
\* than a row it leaves out.
C14_TableIsLatestDate ==
    call.op = "update_interactive_charts" /\ ~empty(df) /\ RowsInRange # {} =>
        /\ ~call.raised
        /\ LET scatter == call.out[3].rows
               bar == call.out[4].rows
               table == call.out[5]
               shown == {scatter[k] : k \in DOMAIN scatter}
               top == {bar[k] : k \in DOMAIN bar}
           IN  /\ shown = {df.rows[i].idx : i \in LatestRowsInRange}
               /\ Len(scatter) = Cardinality(LatestRowsInRange)
               /\ Len(table) = Len(scatter)
               /\ \A k \in DOMAIN table :
                     /\ table[k].location = RowLabelled(scatter[k]).location
                     /\ table[k].date = RowLabelled(scatter[k]).date
                     /\ table[k].total_cases = RowLabelled(scatter[k]).total_cases
                     /\ table[k].total_deaths = RowLabelled(scatter[k]).total_deaths
                     /\ table[k].cases_per_million =
                           RowLabelled(scatter[k]).cases_per_million
                     /\ table[k].case_fatality_rate =
                           RowLabelled(scatter[k]).case_fatality_rate
               /\ \A k \in DOMAIN table : \A m \in DOMAIN table :
                     table[k].location = table[m].location => k = m
               /\ Len(bar) <= 15
               /\ Len(bar) = Cardinality(top)
               /\ top \subseteq shown
               /\ Len(bar) = 15 \/ top = shown
               /\ \A x \in top : \A y \in shown \ top :
                     RowLabelled(x).total_cases >= RowLabelled(y).total_cases

\* seventeen countries on the latest date of the range, a country selected
\* that is not among them: the bar shows fifteen and leaves out two, one of
\* which comes before a row of the bar in the table
C14_Witness ==
    /\ call.op = "update_interactive_charts"
    /\ ~call.raised
    /\ call.selected_country = "Brazil"
    /\ Len(call.out[5]) = 17
    /\ Len(call.out[4].rows) = 15
    /\ \E k \in 1..17 : \E m \in 1..17 :
          /\ k < m
          /\ \A b \in 1..15 : call.out[4].rows[b] # call.out[3].rows[k]
          /\ \E b \in 1..15 : call.out[4].rows[b] = call.out[3].rows[m]

====
